---- MODULE Spec2Model ----
(***************************************************************************)
(* Signal-fusion search pipeline of the search & recommendation service:   *)
(* query parser, lexical index, mock model, external signal, ranker and    *)
(* the chaos controller, with the /search request handler that drives      *)
(* them.                                                                   *)
(*                                                                         *)
(* Text is a sequence of one-character strings.  Scores are fixed-point    *)
(* integers: 100 stands for 1.0; the ranking weights are in tenths, so a   *)
(* final score is in thousandths (1000 stands for 1.0).  Chaos rates and   *)
(* uniform draws are in percent.                                           *)
(***************************************************************************)
EXTENDS Integers, Sequences, FiniteSets, TLC

VARIABLES
    chaos_config,    \* ChaosManager.config of the process-wide chaos_manager
    reqs,            \* the /search requests: the handler's locals and its position
    running,         \* the request whose coroutine holds the event loop, or NoRequest
    pq_query,        \* QueryParser.parse: the raw query handed to parse
    pq_parsed,       \* QueryParser.parse: the ParsedQuery returned, or NoValue
    ix_tokens,       \* SearchIndex.search: parsed_query.tokens
    ix_limit,        \* SearchIndex.search: limit
    ix_table,        \* SearchIndex.search: the matching rows of documents_fts in rank order
    ix_out,          \* SearchIndex.search: Returned(list), IndexError, or NoValue
    ix_delay_ms,     \* SearchIndex.search: the delay injected before the query
    rk_results,      \* Ranker.rank: search_results
    rk_predictions,  \* Ranker.rank: model_predictions
    rk_signal,       \* Ranker.rank: external_signal
    rk_weights,      \* Ranker: weight_search, weight_recommendation, weight_external
    rk_out,          \* Ranker.rank: Returned(ranked list), or NoValue
    cm_body,         \* ChaosManager: the fields the installed ChaosConfig was built from
    cm_seen,         \* ChaosManager.get_config: the configuration returned, or NoValue
    cm_trial,        \* ChaosManager.should_trigger_*: the last trial, or NoValue
    rng,             \* the state of the generator behind the module-level random.*
    ml_features,     \* MockMLModel.predict: the FeatureVector of the last call
    ml_out,          \* MockMLModel.predict: Returned(prediction), ModelError, or NoValue
    ml_latency_ms,   \* MockMLModel.predict: the time the last call slept
    ml_first,        \* the first call of predict: its features and its outcome
    fb_args,         \* FeatureBuilder.build_features: parsed_query, doc and user_id
    fb_hashseed,     \* the key of str hashes in each service process
    fb_out           \* FeatureBuilder.build_features: the FeatureVector each process returned

pq_vars == <<pq_query, pq_parsed>>
ix_vars == <<ix_tokens, ix_limit, ix_table, ix_out, ix_delay_ms>>
rk_vars == <<rk_results, rk_predictions, rk_signal, rk_weights, rk_out>>
sv_vars == <<reqs, running>>
cm_vars == <<cm_seen, cm_trial>>
ml_vars == <<rng, ml_features, ml_out, ml_latency_ms, ml_first>>
fb_vars == <<fb_args, fb_hashseed, fb_out>>
unit_vars == <<pq_vars, ix_vars, rk_vars, cm_vars, ml_vars, fb_vars>>
vars == <<chaos_config, cm_body, sv_vars, pq_vars, ix_vars, rk_vars, cm_vars, ml_vars, fb_vars>>

\* a call that has not returned yet
NoValue == [pending |-> TRUE]
\* Python's None
None == [none |-> TRUE]

\* ------------------------------------------------------------------ bounds
MaxPieces == 5
NumDocs == 3
MaxLimit == 2

\* ------------------------------------------------------------- text helpers
Whitespace == {" "}
Punctuation == {","}
Alphanumeric == {"t", "h", "e", "m", "l", "7", "T", "M", "L"}

\* str.lower() on one character
LowerChar(c) ==
    CASE c = "T" -> "t"
      [] c = "M" -> "m"
      [] c = "L" -> "l"
      [] OTHER -> c

\* str.lower()
Lower(s) == [i \in 1..Len(s) |-> LowerChar(s[i])]

RECURSIVE LStrip(_)
LStrip(s) ==
    IF s # <<>> /\ Head(s) \in Whitespace THEN LStrip(Tail(s)) ELSE s

RECURSIVE RStrip(_)
RStrip(s) ==
    IF s # <<>> /\ s[Len(s)] \in Whitespace
    THEN RStrip(SubSeq(s, 1, Len(s) - 1))
    ELSE s

\* str.strip()
Strip(s) == RStrip(LStrip(s))

\* \w of the regular expression: letters, digits and the underscore
IsWordChar(c) == c \notin Whitespace \cup Punctuation

RECURSIVE TokScan(_, _, _, _)
TokScan(s, i, cur, acc) ==
    IF i > Len(s)
    THEN IF cur = <<>> THEN acc ELSE Append(acc, cur)
    ELSE IF IsWordChar(s[i])
         THEN TokScan(s, i + 1, Append(cur, s[i]), acc)
         ELSE TokScan(s, i + 1, <<>>, IF cur = <<>> THEN acc ELSE Append(acc, cur))

\* re.findall(r'\b\w+\b', s): the maximal runs of word characters, in order
FindAllWords(s) == TokScan(s, 1, <<>>, <<>>)

\* ------------------------------------------------------------ configuration
\* Settings.stopwords_list
stopwords_list ==
    { <<"t","h","e">>, <<"a">>, <<"a","n">>, <<"a","n","d">>, <<"o","r">>,
      <<"b","u","t">>, <<"i","n">>, <<"o","n">>, <<"a","t">>, <<"t","o">>,
      <<"f","o","r">>, <<"o","f">>, <<"w","i","t","h">>, <<"b","y">>,
      <<"f","r","o","m">>, <<"a","s">>, <<"i","s">>, <<"w","a","s">>,
      <<"a","r","e">>, <<"w","e","r","e">>, <<"b","e">>, <<"b","e","e","n">> }

\* --------------------------------------------------------------- QueryParser
SEARCH == "search"
DISCOVERY == "discovery"

\* the list comprehension of parse: stop-words and tokens of length <= 1 removed
FilterTokens(tokens) ==
    SelectSeq(tokens, LAMBDA t : t \notin stopwords_list /\ Len(t) > 1)

FinalTokensNoFallback(tokens) == FilterTokens(tokens)

\* the fallback of parse: the unfiltered tokens when nothing survives the filter
FinalTokens(tokens) ==
    IF FilterTokens(tokens) = <<>> THEN tokens ELSE FilterTokens(tokens)

DetectIntentStrict(final_tokens) ==
    IF Len(final_tokens) < 2 THEN DISCOVERY ELSE SEARCH

\* the intent detection of parse, on the token list parse returns
DetectIntent(final_tokens) ==
    IF Len(final_tokens) <= 2 THEN DISCOVERY ELSE SEARCH

\* QueryParser.parse
parse(query) ==
    LET normalized == Strip(Lower(query))
        tokens == FindAllWords(normalized)
        filtered_tokens == FinalTokens(tokens)
    IN  [ original |-> query,
          normalized |-> normalized,
          tokens |-> filtered_tokens,
          intent |-> DetectIntent(filtered_tokens),
          token_count |-> Len(filtered_tokens) ]

\* ------------------------------------------------- inputs of QueryParser.parse
Pieces == { <<"T","h","e">>, <<"M","L">>, <<"7">>, <<" ">>, <<",">> }

RECURSIVE QueriesOf(_)
QueriesOf(n) ==
    IF n = 0 THEN { <<>> }
    ELSE LET shorter == QueriesOf(n - 1)
         IN  shorter \cup { q \o p : q \in shorter, p \in Pieces }

\* query_parser.parse(q)
ParseCall ==
    /\ pq_parsed = NoValue
    /\ pq_parsed' = parse(pq_query)
    /\ UNCHANGED <<pq_query, chaos_config, cm_body, cm_vars, ml_vars, sv_vars, fb_vars, ix_vars, rk_vars>>

\* -------------------------------------------------------------- ChaosManager
\* a field left out of the arguments of ChaosConfig(...)
Omitted == -1

RateFields ==
    { "model_failure_rate", "external_api_timeout_rate", "slow_search_rate",
      "external_api_failure_rate" }

\* Field(default=...) of the four rates of ChaosConfig
FieldDefault ==
    [ model_failure_rate |-> 5,
      external_api_timeout_rate |-> 10,
      slow_search_rate |-> 20,
      external_api_failure_rate |-> 5 ]

\* ChaosConfig(**body): a field that is given keeps its value, a field that is
\* left out takes its schema default
ChaosConfig(body) ==
    [ f \in RateFields |-> IF body[f] = Omitted THEN FieldDefault[f] ELSE body[f] ]

\* ChaosConfig(), no field given
EmptyBody == [ f \in RateFields |-> Omitted ]

\* ChaosConfig() with the schema defaults
DefaultChaosConfig ==
    [ model_failure_rate |-> 5,
      external_api_timeout_rate |-> 10,
      slow_search_rate |-> 20,
      external_api_failure_rate |-> 5 ]

\* the request bodies posted to /chaos/config: no field, one field, all fields
ChaosBodies ==
    { EmptyBody,
      [ model_failure_rate |-> 100, external_api_timeout_rate |-> Omitted,
        slow_search_rate |-> Omitted, external_api_failure_rate |-> Omitted ],
      [ model_failure_rate |-> 0, external_api_timeout_rate |-> 0,
        slow_search_rate |-> 0, external_api_failure_rate |-> 100 ] }

\* the configurations posted to /chaos/config
ChaosConfigs == { ChaosConfig(body) : body \in ChaosBodies }

\* a field-wise update that leaves a rate absent from the body as it was
MergeConfig(config, body) ==
    [ f \in RateFields |-> IF body[f] = Omitted THEN config[f] ELSE body[f] ]

\* a field-wise update caught after its first two fields
HalfUpdatedConfig(config, body) ==
    [ f \in RateFields |->
        IF f \in {"model_failure_rate", "external_api_timeout_rate"}
        THEN ChaosConfig(body)[f] ELSE config[f] ]

\* ChaosManager.update_config: self.config = new_config, with new_config the
\* ChaosConfig FastAPI built from the request body
update_config(config, body) == ChaosConfig(body)

\* ChaosManager.get_config
get_config == chaos_config

\* the values random.random() can return, in [0, 1)
Draws == {0, 7, 15, 99}

\* ------------------------------------------------------- the random module
\* the seeds the operating system's entropy can give the generator
EntropySeeds == {1, 2}

\* the generator seeded from the operating system's entropy; its outputs are
\* not known, so the position in its sequence is not tracked
EntropySeeded(id) == [seeded |-> FALSE, id |-> id]

\* the generator at import
Entropy == EntropySeeded(1)

ReseedSkipped(state) == { state }

\* random.seed() without an argument: the generator is seeded afresh from the
\* operating system's entropy, whatever its state was
Reseed(state) == { EntropySeeded(id) : id \in EntropySeeds }

\* random.seed(a) for an integer a: the seed is abs(a)
Seeded(a) == [seeded |-> TRUE, seed |-> IF a < 0 THEN -a ELSE a, pos |-> 0]

\* the output a seeded generator gives at one position of its sequence
Generate(seed, pos) == (seed * 37 + pos * 11 + 13) % 100

\* what the next random.random() can return
RandomDraws(state) ==
    IF state.seeded THEN { Generate(state.seed, state.pos) } ELSE Draws

\* the generator after one random.random()
Advance(state) ==
    IF state.seeded THEN [state EXCEPT !.pos = @ + 1] ELSE state

\* random.uniform(a, b) = a + (b - a) * random.random()
Uniform(a, b, draw) == a + ((b - a) * draw) \div 100

\* ChaosManager.should_trigger_model_failure
should_trigger_model_failure(draw) == draw < chaos_config.model_failure_rate

\* ChaosManager.should_trigger_external_timeout
should_trigger_external_timeout(draw) == draw < chaos_config.external_api_timeout_rate

\* ChaosManager.should_trigger_slow_search
should_trigger_slow_search(draw) == draw < chaos_config.slow_search_rate

\* ChaosManager.should_trigger_external_failure
should_trigger_external_failure(draw) == draw < chaos_config.external_api_failure_rate

\* the four trials of the chaos manager
TrialKinds == {"model_failure", "external_timeout", "slow_search", "external_failure"}

\* the trial of one kind on one draw of random.random()
should_trigger(kind, draw) ==
    CASE kind = "model_failure" -> should_trigger_model_failure(draw)
      [] kind = "external_timeout" -> should_trigger_external_timeout(draw)
      [] kind = "slow_search" -> should_trigger_slow_search(draw)
      [] kind = "external_failure" -> should_trigger_external_failure(draw)

\* GET /chaos/config: chaos_manager.get_config()
GetChaosConfig ==
    /\ cm_seen' = get_config
    /\ UNCHANGED <<chaos_config, cm_body, cm_trial, ml_vars, sv_vars, fb_vars, pq_vars, ix_vars, rk_vars>>

\* one call of chaos_manager.should_trigger_*()
TrialCall ==
    /\ \E kind \in TrialKinds, draw \in RandomDraws(rng) :
          cm_trial' = [kind |-> kind, draw |-> draw, fired |-> should_trigger(kind, draw),
                       seeded |-> rng.seeded]
    /\ rng' = Advance(rng)
    /\ UNCHANGED <<chaos_config, cm_body, cm_seen, sv_vars, fb_vars, pq_vars, ix_vars, rk_vars,
                   ml_features, ml_out, ml_latency_ms, ml_first>>

\* Settings.search_slow_threshold_ms
search_slow_threshold_ms == 500

\* the chaos injection of SearchIndex.search: time.sleep when the trial fires
SlowSearchDelay(draw) ==
    IF should_trigger_slow_search(draw) THEN search_slow_threshold_ms ELSE 0

\* ------------------------------------------------------------- SearchIndex
\* sqlite3.OperationalError raised by cursor.execute
IndexError == [raised |-> "OperationalError"]
Returned(value) == [returned |-> value]

Docs == 1..NumDocs
Limits == 1..MaxLimit

\* fts.rank (bm25) of a matching row: never positive, the best match lowest
Ranks == {-4, -1, 0}

Abs(x) == IF x < 0 THEN -x ELSE x
Min(a, b) == IF a <= b THEN a ELSE b

\* what documents_fts can answer for a MATCH: the matching rows, each document
\* once, in the order of ORDER BY fts.rank
IsRankOrdered(rows) ==
    /\ \A i, j \in 1..Len(rows) : i # j => rows[i].doc_id # rows[j].doc_id
    /\ \A i, j \in 1..Len(rows) : i < j => rows[i].bm25_rank <= rows[j].bm25_rank

Row == [doc_id : Docs, bm25_rank : Ranks]

RankOrderings ==
    UNION { { rows \in [1..n -> Row] : IsRankOrdered(rows) } : n \in 0..NumDocs }

\* SELECT ... WHERE documents_fts MATCH ? ORDER BY fts.rank LIMIT n
\* (an empty MATCH expression is an fts5 syntax error)
ExecuteMatch(tokens, table, n) ==
    IF tokens = <<>> THEN IndexError ELSE Returned(SubSeq(table, 1, Min(n, Len(table))))

\* base_score = 1.0 / (1.0 + abs(bm25_rank))
BaseScore(bm25_rank) == 100 \div (1 + Abs(bm25_rank))

\* the SearchIndexResult built from one fetched row
IndexResult(row) ==
    [doc_id |-> row.doc_id, base_score |-> BaseScore(row.bm25_rank)]

TruncateNone(results, limit) == results

\* final_results = results[:limit]
Truncate(results, limit) == SubSeq(results, 1, Min(limit, Len(results)))

\* SearchIndex.search, after the slow-search trial
IndexSearch(tokens, limit, table) ==
    LET fetched == ExecuteMatch(tokens, table, limit * 2)
    IN  IF fetched = IndexError THEN IndexError
        ELSE LET rows == fetched.returned
             IN  Returned(Truncate([i \in 1..Len(rows) |-> IndexResult(rows[i])], limit))

\* ------------------------------------------------ inputs of SearchIndex.search
IndexQueries ==
    { <<" ">>, <<"M","L">>, <<"T","h","e"," ","M","L">> }

\* search_index.search(parsed_query, limit=limit)
IndexCall ==
    /\ ix_out = NoValue
    /\ \E draw \in Draws : ix_delay_ms' = SlowSearchDelay(draw)
    /\ ix_out' = IndexSearch(ix_tokens, ix_limit, ix_table)
    /\ UNCHANGED <<ix_tokens, ix_limit, ix_table, chaos_config, cm_body, cm_vars, ml_vars,
                   sv_vars, fb_vars, pq_vars, rk_vars>>

\* ------------------------------------------------------------------- Ranker
\* Settings.weight_search, weight_recommendation, weight_external, in tenths
weight_search == 5
weight_recommendation == 3
weight_external == 2

\* Ranker.__init__: the three weights taken from the settings
DefaultWeights ==
    [ weight_search |-> weight_search,
      weight_recommendation |-> weight_recommendation,
      weight_external |-> weight_external ]

\* the weights of a service started with other settings (WEIGHT_SEARCH=...)
WeightSettings ==
    { DefaultWeights,
      [ weight_search |-> 20, weight_recommendation |-> 3, weight_external |-> 2 ],
      [ weight_search |-> 5, weight_recommendation |-> -30, weight_external |-> 2 ],
      [ weight_search |-> 1, weight_recommendation |-> 1, weight_external |-> 1 ] }

\* pydantic's ValidationError raised by SearchResult(...)
ValidationError == [raised |-> "ValidationError"]

ExternalScoreDoubled(external_signal) ==
    IF external_signal # None THEN 2 * external_signal.relevance_score ELSE 0

\* external_score = external_signal.relevance_score if external_signal else 0.0
ExternalScore(external_signal) ==
    IF external_signal # None THEN external_signal.relevance_score ELSE 0

RecommendationScoreHalf(model_predictions, doc_id) ==
    IF doc_id \in DOMAIN model_predictions
    THEN model_predictions[doc_id].score
    ELSE 50

\* prediction = model_predictions.get(doc.doc_id)
\* recommendation_score = prediction.score if prediction else 0.0
RecommendationScore(model_predictions, doc_id) ==
    IF doc_id \in DOMAIN model_predictions
    THEN model_predictions[doc_id].score
    ELSE 0

\* the SearchResult appended for one document
ScoreDocument(doc, model_predictions, external_signal) ==
    LET recommendation_score == RecommendationScore(model_predictions, doc.doc_id)
        external_score == ExternalScore(external_signal)
    IN  [ doc_id |-> doc.doc_id,
          score |-> rk_weights.weight_search * doc.base_score
                    + rk_weights.weight_recommendation * recommendation_score
                    + rk_weights.weight_external * external_score,
          explanations |-> [ search |-> doc.base_score,
                             recommendation |-> recommendation_score,
                             external |-> external_score ] ]

\* x placed behind every element whose score is >= its own
RECURSIVE InsertDesc(_, _)
InsertDesc(sorted, x) ==
    IF sorted = <<>> THEN <<x>>
    ELSE IF Head(sorted).score >= x.score
         THEN <<Head(sorted)>> \o InsertDesc(Tail(sorted), x)
         ELSE <<x>> \o sorted

RECURSIVE InsertAsc(_, _)
InsertAsc(sorted, x) ==
    IF sorted = <<>> THEN <<x>>
    ELSE IF Head(sorted).score <= x.score
         THEN <<Head(sorted)>> \o InsertAsc(Tail(sorted), x)
         ELSE <<x>> \o sorted

RECURSIVE SortAsc(_)
SortAsc(list) ==
    IF list = <<>> THEN <<>>
    ELSE InsertAsc(SortAsc(SubSeq(list, 1, Len(list) - 1)), list[Len(list)])

Reverse(list) == [i \in 1..Len(list) |-> list[Len(list) + 1 - i]]

SortAscThenReverse(list) == Reverse(SortAsc(list))

\* ranked_results.sort(key=lambda x: x.score, reverse=True): list.sort is stable
RECURSIVE SortByScoreDesc(_)
SortByScoreDesc(list) ==
    IF list = <<>> THEN <<>>
    ELSE InsertDesc(SortByScoreDesc(SubSeq(list, 1, Len(list) - 1)), list[Len(list)])

RankPredictedOnly(search_results, model_predictions, external_signal) ==
    LET predicted == SelectSeq(search_results,
                               LAMBDA doc : doc.doc_id \in DOMAIN model_predictions)
    IN  SortByScoreDesc([i \in 1..Len(predicted) |->
            ScoreDocument(predicted[i], model_predictions, external_signal)])

\* Ranker.rank
rank(search_results, model_predictions, external_signal) ==
    SortByScoreDesc([i \in 1..Len(search_results) |->
        ScoreDocument(search_results[i], model_predictions, external_signal)])

\* score: float = Field(..., ge=0.0, le=1.0) of every SearchResult built in rank
ScoresValid(ranked_results) ==
    \A i \in 1..Len(ranked_results) :
        ranked_results[i].score >= 0 /\ ranked_results[i].score <= 1000

\* how a call of Ranker.rank ends: SearchResult(...) validates the score of the
\* result it builds, and its ValidationError leaves rank
RankOutcome(search_results, model_predictions, external_signal) ==
    IF ScoresValid(rank(search_results, model_predictions, external_signal))
    THEN Returned(rank(search_results, model_predictions, external_signal))
    ELSE ValidationError

\* ------------------------------------------------------ inputs of Ranker.rank
PredictionScores == {50, 100}
SignalScores == {0, 60, 100}

\* confidence = abs(score - 0.5) * 2.0
Confidence(score) == Abs(score - 50) * 2

Prediction(score) == [score |-> score, confidence |-> Confidence(score)]

Signal(relevance_score) == [source |-> "wikipedia", relevance_score |-> relevance_score]

PredictionMaps ==
    UNION { [ids -> {Prediction(s) : s \in PredictionScores}] : ids \in SUBSET Docs }

\* ranker.rank(search_results, model_predictions, external_signal)
RankCall ==
    /\ rk_out = NoValue
    /\ rk_out' = RankOutcome(rk_results, rk_predictions, rk_signal)
    /\ UNCHANGED <<rk_results, rk_predictions, rk_signal, rk_weights, chaos_config, cm_body, cm_vars,
                   ml_vars, sv_vars, fb_vars, pq_vars, ix_vars>>

\* --------------------------------------------------------------- MockMLModel
ModelError == [raised |-> "ModelError"]
\* ModelTimeoutError, a class of its own beside ModelError
ModelTimeoutError == [raised |-> "ModelTimeoutError"]

PredictNeverFails(draw, score) == Returned(Prediction(score))

\* MockMLModel.predict: the model-failure trial first, then the prediction;
\* `score` is the clamped score computed from the feature vector
predict(draw, score) ==
    IF should_trigger_model_failure(draw) THEN ModelError ELSE Returned(Prediction(score))

\* MockMLModel.feature_weights, in hundredths
feature_weights ==
    [ query_doc_overlap |-> 30,
      embedding_dot_product |-> 25,
      query_token_count |-> 15,
      doc_category_encoded |-> 10,
      match_quality |-> 20 ]

Max(a, b) == IF a >= b THEN a ELSE b

\* 1.0 / (1.0 + math.exp(-5 * (score - 0.5))) for score = 0.00, 0.01, ... 1.50
SigmoidTable ==
    << 8, 8, 8, 9, 9, 10, 10, 10, 11, 11, 12, 12, 13, 14, 14, 15,
       15, 16, 17, 18, 18, 19, 20, 21, 21, 22, 23, 24, 25, 26, 27, 28,
       29, 30, 31, 32, 33, 34, 35, 37, 38, 39, 40, 41, 43, 44, 45, 46,
       48, 49, 50, 51, 52, 54, 55, 56, 57, 59, 60, 61, 62, 63, 65, 66,
       67, 68, 69, 70, 71, 72, 73, 74, 75, 76, 77, 78, 79, 79, 80, 81,
       82, 82, 83, 84, 85, 85, 86, 86, 87, 88, 88, 89, 89, 90, 90, 90,
       91, 91, 92, 92, 92, 93, 93, 93, 94, 94, 94, 95, 95, 95, 95, 95,
       96, 96, 96, 96, 96, 97, 97, 97, 97, 97, 97, 97, 98, 98, 98, 98,
       98, 98, 98, 98, 98, 98, 99, 99, 99, 99, 99, 99, 99, 99, 99, 99,
       99, 99, 99, 99, 99, 99, 99 >>

Sigmoid(score) == SigmoidTable[Min(Max(score, 0), Len(SigmoidTable) - 1) + 1]

\* the weighted sum of predict, in ten-thousandths; the float features are in
\* hundredths
WeightedScore(features) ==
    LET dot == Max(0, features.embedding_dot_product)
        match_quality == (features.query_doc_overlap + dot) \div 2
    IN  feature_weights.query_doc_overlap * features.query_doc_overlap
        + feature_weights.embedding_dot_product * dot
        + feature_weights.query_token_count * Min(features.query_token_count * 10, 100)
        + feature_weights.doc_category_encoded * (features.doc_category_encoded * 25)
        + feature_weights.match_quality * match_quality

\* hash((query_length, query_token_count, user_id_hash, doc_length)): the hash
\* of a tuple of integers, a signed value fixed by the four integers
FeatureHash(features) ==
    ( ( ( ( features.query_length * 31 + features.query_token_count ) * 31
            + features.user_id_hash ) * 31 + features.doc_length ) % 65536 ) - 32768

SeedSkipped(state, feature_hash) == state

\* random.seed(feature_hash)
SeedForNoise(state, feature_hash) == Seeded(feature_hash)

UnclampedScore(features, noise) == Sigmoid(WeightedScore(features) \div 100) + noise

\* score = max(0.0, min(1.0, score + noise)) of the sigmoid of the weighted sum
ClampedScore(features, noise) ==
    Max(0, Min(100, Sigmoid(WeightedScore(features) \div 100) + noise))

\* Settings.model_timeout_seconds, in milliseconds
model_timeout_seconds == 2000

InferenceTimeDoubled(time_draw, slow_draw) ==
    IF slow_draw < 1 THEN model_timeout_seconds * 2
    ELSE Uniform(10, 50, time_draw)

\* inference_time: uniform(0.010, 0.050), or 0.8 of the timeout on 1% of the calls
InferenceTime(time_draw, slow_draw) ==
    IF slow_draw < 1 THEN (model_timeout_seconds * 8) \div 10
    ELSE Uniform(10, 50, time_draw)

\* ------------------------------------------ inputs of MockMLModel.predict
FeatureVectors ==
    [ query_length : {2, 14},
      query_token_count : {3},
      user_id_hash : {7},
      doc_length : {200},
      doc_category_encoded : {4},
      query_doc_overlap : {50},
      embedding_dot_product : {-100, 400} ]

\* ml_model.predict(features): the model-failure trial; then the sleep, the
\* weighted score, the noise of the generator seeded with the feature hash and
\* the reset of the seed
PredictCall ==
    /\ \E features \in FeatureVectors, trial_draw \in RandomDraws(rng) :
          IF should_trigger_model_failure(trial_draw)
          THEN /\ ml_out' = predict(trial_draw, 0)
               /\ cm_trial' = [kind |-> "model_failure", draw |-> trial_draw,
                               fired |-> TRUE, seeded |-> rng.seeded]
               /\ ml_features' = features
               /\ ml_latency_ms' = 0
               /\ rng' = Advance(rng)
          ELSE \E time_draw \in RandomDraws(Advance(rng)),
                  slow_draw \in RandomDraws(Advance(Advance(rng))) :
                 LET seeded == SeedForNoise(Advance(Advance(Advance(rng))),
                                            FeatureHash(features))
                 IN  \E noise_draw \in RandomDraws(seeded) :
                        /\ ml_out' = predict(trial_draw,
                                ClampedScore(features, Uniform(-5, 5, noise_draw)))
                        /\ cm_trial' = [kind |-> "model_failure", draw |-> trial_draw,
                                        fired |-> FALSE, seeded |-> rng.seeded]
                        /\ ml_features' = features
                        /\ ml_latency_ms' = InferenceTime(time_draw, slow_draw)
                        /\ rng' \in Reseed(Advance(seeded))
    /\ ml_first' = IF ml_first = NoValue
                    THEN [features |-> ml_features', out |-> ml_out']
                    ELSE ml_first
    /\ UNCHANGED <<chaos_config, cm_body, cm_seen, sv_vars, fb_vars, pq_vars, ix_vars, rk_vars>>

\* ------------------------------------------------------------ FeatureBuilder
\* the length of the snippet SearchIndex.search keeps of a document's text
SnippetLength == 200

\* row['text'][:200] of the SearchIndexResult
Snippet(text) == SubSeq(text, 1, Min(SnippetLength, Len(text)))

\* the positions where a run of characters that are not whitespace starts
RunStarts(s) ==
    { i \in 1..Len(s) : s[i] \notin Whitespace /\ (i = 1 \/ s[i - 1] \in Whitespace) }

\* the last position of the run that starts at position i
RunEnd(s, i) ==
    CHOOSE j \in i..Len(s) :
        /\ \A k \in i..j : s[k] \notin Whitespace
        /\ j = Len(s) \/ s[j + 1] \in Whitespace

\* str.split(): the maximal runs of characters that are not whitespace, in order
Split(s) ==
    LET starts == RunStarts(s)
        start(n) == CHOOSE i \in starts : Cardinality({ j \in starts : j < i }) = n - 1
    IN  [ n \in 1..Cardinality(starts) |-> SubSeq(s, start(n), RunEnd(s, start(n))) ]

\* set(list)
SetOf(list) == { list[i] : i \in 1..Len(list) }

CATEGORY_ENCODING ==
    [ machine_learning |-> 0,
      data_science |-> 1,
      web_development |-> 2,
      cloud_computing |-> 3,
      cybersecurity |-> 4 ]

EncodeCategoryNext(category) ==
    IF category \in DOMAIN CATEGORY_ENCODING THEN CATEGORY_ENCODING[category] ELSE 5

\* CATEGORY_ENCODING.get(category, 0)
EncodeCategory(category) ==
    IF category \in DOMAIN CATEGORY_ENCODING THEN CATEGORY_ENCODING[category] ELSE 0

JaccardOverQuery(query_tokens, doc_tokens) ==
    IF Cardinality(query_tokens) > 0
    THEN (Cardinality(query_tokens \cap doc_tokens) * 100) \div Cardinality(query_tokens)
    ELSE 0

\* intersection / union if union > 0 else 0.0, in hundredths
JaccardOverlap(query_tokens, doc_tokens) ==
    LET intersection == Cardinality(query_tokens \cap doc_tokens)
        union == Cardinality(query_tokens \cup doc_tokens)
    IN  IF union > 0 THEN (intersection * 100) \div union ELSE 0

\* the keys the interpreter can pick for str hashes at start-up
HashSeeds == {0, 1}

\* the service processes, each started on its own
Processes == {"p1", "p2"}

CharCode(c) ==
    CASE c = "t" -> 116 [] c = "h" -> 104 [] c = "e" -> 101 [] c = "m" -> 109
      [] c = "l" -> 108 [] c = "7" -> 55 [] c = "u" -> 117 [] c = "1" -> 49
      [] c = "2" -> 50 [] OTHER -> 32

RECURSIVE HashScan(_, _)
HashScan(h, s) ==
    IF s = <<>> THEN h ELSE HashScan((h * 31 + CharCode(Head(s))) % 65536, Tail(s))

\* hash(s) of a str: a signed value fixed by the characters and by the key the
\* process drew at start-up; the empty string hashes to 0
StrHash(hashseed, s) ==
    IF s = <<>> THEN 0 ELSE HashScan(hashseed * 4099 + 17, s) - 32768

\* the dimension of the embeddings
EmbeddingDim == 8

RECURSIVE ShiftRight(_, _)
\* h >> (i * 8)
ShiftRight(h, i) == IF i = 0 THEN h ELSE ShiftRight(h \div 256, i - 1)

\* ((token_hash >> (i * 8)) & 0xFF) / 255.0 * 2 - 1 for i in range(8), in hundredths
TokenEmbedding(token_hash) ==
    [ i \in 1..EmbeddingDim |-> (((ShiftRight(token_hash, i - 1) % 256) * 200) \div 255) - 100 ]

RECURSIVE SumSeq(_)
SumSeq(list) == IF list = <<>> THEN 0 ELSE Head(list) + SumSeq(Tail(list))

ZeroEmbedding == [ i \in 1..EmbeddingDim |-> 0 ]

\* FeatureBuilder._generate_query_embedding: the average of the token embeddings
generate_query_embedding(hashseed, tokens) ==
    IF tokens = <<>>
    THEN ZeroEmbedding
    ELSE LET embeddings == [ k \in 1..Len(tokens) |-> TokenEmbedding(StrHash(hashseed, tokens[k])) ]
         IN  [ i \in 1..EmbeddingDim |->
                 SumSeq([ k \in 1..Len(tokens) |-> embeddings[k][i] ]) \div Len(tokens) ]

\* sum(q * d for q, d in zip(query_embedding, doc_embedding)), in hundredths
DotProduct(query_embedding, doc_embedding) ==
    SumSeq([ i \in 1..Min(Len(query_embedding), Len(doc_embedding)) |->
               query_embedding[i] * doc_embedding[i] ]) \div 100

\* s * n of a str
Repeat(s, n) == [ i \in 1..(n * Len(s)) |-> s[((i - 1) % Len(s)) + 1] ]

\* the rows of the documents table, by doc_id; the text of document 2 is longer
\* than a snippet and its last word lies past character 200
documents ==
    [ d \in 1..3 |->
        CASE d = 1 -> [ text |-> <<"T","h","e"," ","M","L">>,
                        category |-> "data_science",
                        embedding |-> <<70, -17, 48, 55, -7, -97, -69, 45>> ]
          [] d = 2 -> [ text |-> Repeat(<<"t","h","e"," ">>, 50) \o <<"m","l">>,
                        category |-> "cybersecurity",
                        embedding |-> <<-20, 100, 35, -64, 12, 90, -100, 8>> ]
          [] d = 3 -> [ text |-> <<>>,
                        category |-> "quantum_computing",
                        embedding |-> <<100, 100, 100, 100, 100, 100, 100, 100>> ] ]

\* FeatureBuilder.build_features; `hashseed` is the key of str hashes in the
\* process that runs it
build_features(hashseed, parsed_query, doc, user_id) ==
    LET query_length == Len(parsed_query.original)
        query_token_count == parsed_query.token_count
        user_id_hash == StrHash(hashseed, user_id) % 1000
        doc_length == Len(doc.text)
        row == IF doc.doc_id \in DOMAIN documents THEN documents[doc.doc_id] ELSE None
        category == IF row # None THEN row.category ELSE "machine_learning"
        doc_embedding == IF row # None THEN row.embedding ELSE ZeroEmbedding
        doc_category_encoded == EncodeCategory(category)
        doc_tokens == SetOf(Split(Lower(doc.text)))
        query_tokens == SetOf(parsed_query.tokens)
        query_doc_overlap == JaccardOverlap(query_tokens, doc_tokens)
        query_embedding == generate_query_embedding(hashseed, parsed_query.tokens)
        embedding_dot_product == DotProduct(query_embedding, doc_embedding)
    IN  [ query_length |-> query_length,
          query_token_count |-> query_token_count,
          user_id_hash |-> user_id_hash,
          doc_length |-> doc_length,
          doc_category_encoded |-> doc_category_encoded,
          query_doc_overlap |-> query_doc_overlap,
          embedding_dot_product |-> embedding_dot_product ]

\* ---------------------------------- inputs of FeatureBuilder.build_features
FeatureQueries == { <<"M","L">>, <<"t","h","e"," ","m","l">>, <<",">> }
FeatureUsers == { <<"u","1">>, <<"u","2">> }

\* the candidates SearchIndex.search hands over: one per row of documents, and
\* one whose row was deleted after the search
FeatureDocs ==
    { [doc_id |-> d, text |-> Snippet(documents[d].text)] : d \in DOMAIN documents }
        \cup { [doc_id |-> 4, text |-> Snippet(<<"m","l">>)] }

\* feature_builder.build_features(parsed_query, doc, user_id) in one process
BuildFeaturesCall ==
    /\ \E p \in Processes :
          /\ fb_out[p] = NoValue
          /\ fb_out' = [fb_out EXCEPT ![p] =
                  build_features(fb_hashseed[p], fb_args.parsed_query, fb_args.doc,
                                 fb_args.user_id)]
    /\ UNCHANGED <<fb_args, fb_hashseed, chaos_config, cm_body, cm_vars, ml_vars, sv_vars,
                   pq_vars, ix_vars, rk_vars>>

\* ----------------------------------------------------------- WikipediaClient
HttpOutcomesNever == {}

\* what `await client.get(url, timeout=self.timeout)` can end with
HttpOutcomes ==
    { [kind |-> "TimeoutException"],
      [kind |-> "HTTPError"],
      [kind |-> "response", status_code |-> 404, well_formed |-> TRUE, extract_length |-> 0],
      [kind |-> "response", status_code |-> 200, well_formed |-> FALSE, extract_length |-> 0],
      [kind |-> "response", status_code |-> 200, well_formed |-> TRUE, extract_length |-> 0],
      [kind |-> "response", status_code |-> 200, well_formed |-> TRUE, extract_length |-> 700] }

\* relevance_score = min(description_length / 500.0, 1.0)
RelevanceScore(description_length) == Min((description_length * 100) \div 500, 100)

ExternalChaosTimeoutFirst(failure_draw, timeout_draw) ==
    IF should_trigger_external_timeout(timeout_draw) THEN "chaos_timeout"
    ELSE IF should_trigger_external_failure(failure_draw) THEN "chaos_failure"
    ELSE "none"

\* the trials get_signal runs, in their order: the timeout trial is reached
\* only when the failure trial did not fire
ExternalTrials(failure_draw, timeout_draw) ==
    IF should_trigger_external_failure(failure_draw)
    THEN << [kind |-> "external_failure", fired |-> TRUE] >>
    ELSE << [kind |-> "external_failure", fired |-> FALSE],
            [kind |-> "external_timeout",
             fired |-> should_trigger_external_timeout(timeout_draw)] >>

\* topic = parsed_query.tokens[0] if parsed_query.tokens else "search"
Topic(tokens) ==
    IF tokens # <<>> THEN tokens[1] ELSE <<"s","e","a","r","c","h">>

\* the two chaos trials at the head of get_signal, in their order
ExternalChaos(failure_draw, timeout_draw) ==
    IF should_trigger_external_failure(failure_draw) THEN "chaos_failure"
    ELSE IF should_trigger_external_timeout(timeout_draw) THEN "chaos_timeout"
    ELSE "none"

\* how get_signal ends once client.get has ended with `outcome`
SignalOutcome(outcome) ==
    IF outcome.kind = "TimeoutException" THEN "timeout"
    ELSE IF outcome.kind = "HTTPError" THEN "transport_error"
    ELSE IF outcome.status_code # 200 THEN "non_200"
    ELSE IF ~outcome.well_formed THEN "malformed_body"
    ELSE "success"

SignalKeptOnFailure(external_outcome, outcome) == Signal(RelevanceScore(700))

\* external_signal of the handler after its try/except around get_signal: the
\* signal get_signal returns, None when it returns None or raises (the two
\* simulated errors and a body response.json() cannot decode leave get_signal
\* as exceptions and are caught by the handler's `except Exception`)
ExternalSignalOf(external_outcome, outcome) ==
    IF external_outcome = "success"
    THEN Signal(RelevanceScore(outcome.extract_length))
    ELSE None

\* ------------------------------------------------------- the /search handler
Requests == {"r1", "r2"}
NoRequest == "none"

\* the query strings, limits and index tables of the requests
ServiceQueries == { <<>>, <<" ">>, <<"M","L">> }
ServiceLimits == {0, 1, 2}
ServiceTables ==
    { <<>>,
      << [doc_id |-> 1, bm25_rank |-> -1] >>,
      << [doc_id |-> 2, bm25_rank |-> -4], [doc_id |-> 1, bm25_rank |-> -1],
         [doc_id |-> 3, bm25_rank |-> 0] >> }

IdleRequest ==
    [ pc |-> "idle",
      q |-> <<>>,
      limit |-> 0,
      chaos_config |-> None,
      components_called |-> <<>>,
      parsed_query |-> None,
      search_results |-> <<>>,
      scored |-> 0,
      model_predictions |-> <<>>,
      successful_predictions |-> 0,
      failed_predictions |-> 0,
      model_metrics |-> <<>>,
      trial_configs |-> <<>>,
      external_outcome |-> "not_called",
      external_trials |-> <<>>,
      lookups |-> <<>>,
      external_signal |-> None,
      ranked_results |-> <<>>,
      status_code |-> 0 ]

\* the Query(...) constraints of the endpoint: 1 <= len(q) <= 500, 1 <= limit <= 100
QueryConstraints(q, limit) ==
    /\ Len(q) >= 1 /\ Len(q) <= 500
    /\ limit >= 1 /\ limit <= 100

EventLoopAlwaysFree == TRUE

\* the event loop runs a handler only when no coroutine is executing: a
\* coroutine keeps the loop until it awaits or returns
EventLoopFree == running = NoRequest

RecordSuccessOnly(metrics, status) ==
    IF status = "success" THEN Append(metrics, status) ELSE metrics

\* record_model_prediction: model_predictions_total.add(1, {"status": status})
record_model_prediction(metrics, status) == Append(metrics, status)

\* FastAPI answers 422 without calling the handler, or the handler starts and
\* reads the chaos configuration for its span
Receive(r) ==
    /\ EventLoopFree
    /\ reqs[r].pc = "idle"
    /\ \E q \in ServiceQueries, limit \in ServiceLimits :
          IF QueryConstraints(q, limit)
          THEN /\ reqs' = [reqs EXCEPT ![r] =
                     [@ EXCEPT !.pc = "parse", !.q = q, !.limit = limit,
                               !.chaos_config = chaos_config]]
               /\ running' = r
          ELSE /\ reqs' = [reqs EXCEPT ![r] =
                     [@ EXCEPT !.pc = "done", !.q = q, !.limit = limit,
                               !.status_code = 422]]
               /\ UNCHANGED running
    /\ UNCHANGED <<chaos_config, cm_body, unit_vars>>

\* 1. Parse query
ParseStep(r) ==
    /\ running = r
    /\ reqs[r].pc = "parse"
    /\ reqs' = [reqs EXCEPT ![r] =
          [@ EXCEPT !.pc = "index",
                    !.parsed_query = parse(reqs[r].q),
                    !.components_called = Append(@, "query_parser")]]
    /\ UNCHANGED <<chaos_config, cm_body, running, unit_vars>>

\* the query of SearchIndex.search and what the handler does with its outcome:
\* an sqlite error leaves the handler and FastAPI answers 500
IndexLookup(r, trials) ==
    \E table \in ServiceTables, db_available \in BOOLEAN :
        LET found == IF db_available
                     THEN IndexSearch(reqs[r].parsed_query.tokens, reqs[r].limit, table)
                     ELSE IndexError
        IN  IF found = IndexError
            THEN /\ reqs' = [reqs EXCEPT ![r] =
                       [@ EXCEPT !.pc = "done", !.status_code = 500,
                                 !.trial_configs = @ \o trials]]
                 /\ running' = NoRequest
            ELSE /\ reqs' = [reqs EXCEPT ![r] =
                       [@ EXCEPT !.pc = IF found.returned = <<>> THEN "external" ELSE "score",
                                 !.trial_configs = @ \o trials,
                                 !.search_results = found.returned,
                                 !.components_called = Append(@, "search_index")]]
                 /\ UNCHANGED running

\* 2. Search index: the slow-search trial; when it fires the coroutine stays in
\* time.sleep, which does not give up the event loop, otherwise the query runs
IndexStep(r) ==
    /\ running = r
    /\ reqs[r].pc = "index"
    /\ \E draw \in Draws :
          IF SlowSearchDelay(draw) > 0
          THEN /\ reqs' = [reqs EXCEPT ![r] =
                     [@ EXCEPT !.pc = "index_sleep",
                               !.trial_configs = Append(@, chaos_config)]]
               /\ UNCHANGED running
          ELSE IndexLookup(r, <<chaos_config>>)
    /\ UNCHANGED <<chaos_config, cm_body, unit_vars>>

\* time.sleep(search_slow_threshold_ms / 1000.0) is over: the query runs
IndexWake(r) ==
    /\ running = r
    /\ reqs[r].pc = "index_sleep"
    /\ IndexLookup(r, <<>>)
    /\ UNCHANGED <<chaos_config, cm_body, unit_vars>>

CatchesNothing(outcome) == FALSE

\* `except ModelError` of the per-document loop
CatchesModelError(outcome) == outcome = ModelError

AppendAlways(list, x) == Append(list, x)

\* if "recommendation_engine" not in components_called: components_called.append(...)
AppendOnce(list, x) ==
    IF \E i \in 1..Len(list) : list[i] = x THEN list ELSE Append(list, x)

LoopEndsAfterFirst(scored, search_results) == "external"

\* `for doc in search_results`: the next candidate, or the stage after the loop
LoopNext(scored, search_results) ==
    IF scored = Len(search_results) THEN "external" ELSE "score"

\* 3. ML predictions: one pass of `for doc in search_results`, up to the end
\* of predict or to its time.sleep, which does not give up the event loop
ScoreStep(r) ==
    /\ running = r
    /\ reqs[r].pc = "score"
    /\ \E draw \in Draws :
          LET outcome == predict(draw, 0)
          IN  IF outcome # ModelError
              THEN /\ reqs' = [reqs EXCEPT ![r] =
                         [@ EXCEPT !.pc = "score_sleep",
                                   !.trial_configs = Append(@, chaos_config)]]
                   /\ UNCHANGED running
              ELSE IF CatchesModelError(outcome)
              THEN /\ reqs' = [reqs EXCEPT ![r] =
                         [@ EXCEPT !.pc = LoopNext(reqs[r].scored + 1,
                                                   reqs[r].search_results),
                                   !.scored = @ + 1,
                                   !.trial_configs = Append(@, chaos_config),
                                   !.failed_predictions = @ + 1,
                                   !.model_metrics = record_model_prediction(@, "failure")]]
                   /\ UNCHANGED running
              ELSE /\ reqs' = [reqs EXCEPT ![r] =
                         [@ EXCEPT !.pc = "done", !.status_code = 500,
                                   !.trial_configs = Append(@, chaos_config)]]
                   /\ running' = NoRequest
    /\ UNCHANGED <<chaos_config, cm_body, unit_vars>>

\* time.sleep(inference_time) is over: predict returns its prediction and the
\* handler stores it
ScoreWake(r) ==
    /\ running = r
    /\ reqs[r].pc = "score_sleep"
    /\ \E score \in PredictionScores :
          LET doc == reqs[r].search_results[reqs[r].scored + 1]
          IN  reqs' = [reqs EXCEPT ![r] =
                  [@ EXCEPT !.pc = LoopNext(reqs[r].scored + 1, reqs[r].search_results),
                            !.scored = @ + 1,
                            !.model_predictions =
                                [id \in DOMAIN @ \cup {doc.doc_id} |->
                                    IF id = doc.doc_id THEN Prediction(score) ELSE @[id]],
                            !.successful_predictions = @ + 1,
                            !.model_metrics = record_model_prediction(@, "success"),
                            !.components_called = AppendOnce(@, "recommendation_engine")]]
    /\ UNCHANGED <<chaos_config, cm_body, running, unit_vars>>

\* 4. Wikipedia API: get_signal up to its first await. A simulated failure is
\* raised at once and caught by the handler; a simulated timeout suspends in
\* asyncio.sleep; otherwise the coroutine suspends in client.get
ExternalStart(r) ==
    /\ running = r
    /\ reqs[r].pc = "external"
    /\ \E failure_draw \in Draws, timeout_draw \in Draws :
          LET chaos == ExternalChaos(failure_draw, timeout_draw)
          IN  IF chaos = "chaos_failure"
              THEN /\ reqs' = [reqs EXCEPT ![r] =
                         [@ EXCEPT !.pc = "rank",
                                   !.external_outcome = chaos,
                                   !.external_trials =
                                       @ \o ExternalTrials(failure_draw, timeout_draw),
                                   !.trial_configs =
                                       @ \o [i \in 1..Len(ExternalTrials(failure_draw,
                                                   timeout_draw)) |-> chaos_config],
                                   !.external_signal = ExternalSignalOf(chaos, None)]]
                   /\ UNCHANGED running
              ELSE /\ reqs' = [reqs EXCEPT ![r] =
                         [@ EXCEPT !.pc = IF chaos = "chaos_timeout"
                                          THEN "sleeping" ELSE "fetching",
                                   !.external_trials =
                                       @ \o ExternalTrials(failure_draw, timeout_draw),
                                   !.trial_configs =
                                       @ \o [i \in 1..Len(ExternalTrials(failure_draw,
                                                   timeout_draw)) |-> chaos_config],
                                   !.lookups =
                                       IF chaos = "chaos_timeout" THEN @
                                       ELSE Append(@, Topic(reqs[r].parsed_query.tokens))]]
                   /\ running' = NoRequest
    /\ UNCHANGED <<chaos_config, cm_body, unit_vars>>

\* asyncio.sleep(wikipedia_timeout + 1) is over: the simulated timeout is raised
\* and caught by the handler
ExternalSleepDone(r) ==
    /\ EventLoopFree
    /\ reqs[r].pc = "sleeping"
    /\ reqs' = [reqs EXCEPT ![r] =
          [@ EXCEPT !.pc = "rank",
                    !.external_outcome = "chaos_timeout",
                    !.external_signal = ExternalSignalOf("chaos_timeout", None)]]
    /\ running' = r
    /\ UNCHANGED <<chaos_config, cm_body, unit_vars>>

\* client.get has ended: get_signal returns a signal or None, or raises, and
\* the handler goes on
ExternalFetchDone(r) ==
    /\ EventLoopFree
    /\ reqs[r].pc = "fetching"
    /\ \E outcome \in HttpOutcomes :
          reqs' = [reqs EXCEPT ![r] =
              [@ EXCEPT !.pc = "rank",
                        !.external_outcome = SignalOutcome(outcome),
                        !.external_signal = ExternalSignalOf(SignalOutcome(outcome), outcome),
                        !.components_called =
                            IF SignalOutcome(outcome) = "success"
                            THEN Append(@, "wikipedia_api") ELSE @]]
    /\ running' = r
    /\ UNCHANGED <<chaos_config, cm_body, unit_vars>>

\* 5. Ranker, and the response
RankStep(r) ==
    /\ running = r
    /\ reqs[r].pc = "rank"
    /\ LET ranked == RankOutcome(reqs[r].search_results, reqs[r].model_predictions,
                                  reqs[r].external_signal)
       IN  reqs' = [reqs EXCEPT ![r] =
               IF ranked # ValidationError
               THEN [@ EXCEPT !.pc = "done",
                              !.ranked_results = ranked.returned,
                              !.components_called = Append(@, "ranker"),
                              !.status_code = 200]
               ELSE [@ EXCEPT !.pc = "done", !.status_code = 500]]
    /\ running' = NoRequest
    /\ UNCHANGED <<chaos_config, cm_body, unit_vars>>

\* the client has its response; the next request of this client can come
Deliver(r) ==
    /\ reqs[r].pc = "done"
    /\ reqs' = [reqs EXCEPT ![r] = IdleRequest]
    /\ UNCHANGED <<chaos_config, cm_body, running, unit_vars>>

\* POST /chaos/config: chaos_manager.update_config(config)
UpdateChaosConfig ==
    /\ EventLoopFree
    /\ \E body \in ChaosBodies :
          /\ chaos_config' = update_config(chaos_config, body)
          /\ cm_body' = body
    /\ UNCHANGED <<reqs, running, unit_vars>>

\* ----------------------------------------------------------- specifications
\* the service after start-up: default chaos configuration, no request
Init ==
    /\ chaos_config = ChaosConfig(EmptyBody)
    /\ cm_body = EmptyBody /\ cm_seen = NoValue /\ cm_trial = NoValue
    /\ rng = Entropy /\ ml_features = NoValue /\ ml_out = NoValue
    /\ ml_latency_ms = 0 /\ ml_first = NoValue
    /\ fb_args = NoValue /\ fb_hashseed = NoValue /\ fb_out = NoValue
    /\ reqs = [r \in Requests |-> IdleRequest]
    /\ running = NoRequest
    /\ pq_query = <<>> /\ pq_parsed = NoValue
    /\ ix_tokens = <<>> /\ ix_limit = 1 /\ ix_table = <<>>
    /\ ix_out = NoValue /\ ix_delay_ms = 0
    /\ rk_results = <<>> /\ rk_predictions = <<>> /\ rk_signal = None
    /\ rk_weights = DefaultWeights
    /\ rk_out = NoValue

Next ==
    \/ \E r \in Requests : Receive(r)
    \/ \E r \in Requests : ParseStep(r)
    \/ \E r \in Requests : IndexStep(r)
    \/ \E r \in Requests : IndexWake(r)
    \/ \E r \in Requests : ScoreStep(r)
    \/ \E r \in Requests : ScoreWake(r)
    \/ \E r \in Requests : ExternalStart(r)
    \/ \E r \in Requests : ExternalSleepDone(r)
    \/ \E r \in Requests : ExternalFetchDone(r)
    \/ \E r \in Requests : RankStep(r)
    \/ \E r \in Requests : Deliver(r)
    \/ UpdateChaosConfig

\* the service: concurrent /search requests and chaos reconfiguration
Spec == Init /\ [][Next]_vars

\* the synchronous steps of the handler of one request: the coroutine holds
\* the event loop and goes on until it awaits or returns
HandlerStep(r) ==
    \/ ParseStep(r)
    \/ IndexStep(r)
    \/ IndexWake(r)
    \/ ScoreStep(r)
    \/ ScoreWake(r)
    \/ ExternalStart(r)
    \/ RankStep(r)

\* the requests whose termination is followed
LiveRequests == {"r1"}

NextLive ==
    \/ \E r \in LiveRequests : Receive(r)
    \/ \E r \in LiveRequests : ParseStep(r)
    \/ \E r \in LiveRequests : IndexStep(r)
    \/ \E r \in LiveRequests : IndexWake(r)
    \/ \E r \in LiveRequests : ScoreStep(r)
    \/ \E r \in LiveRequests : ScoreWake(r)
    \/ \E r \in LiveRequests : ExternalStart(r)
    \/ \E r \in LiveRequests : ExternalSleepDone(r)
    \/ \E r \in LiveRequests : ExternalFetchDone(r)
    \/ \E r \in LiveRequests : RankStep(r)
    \/ \E r \in LiveRequests : Deliver(r)
    \/ UpdateChaosConfig

\* the service with its scheduling: a running coroutine goes on; a coroutine
\* whose sleep or lookup has ended is in the loop's first-in first-out ready
\* queue, so it is resumed however often other handlers take the loop
SpecLive ==
    /\ Init
    /\ [][NextLive]_vars
    /\ \A r \in LiveRequests :
          /\ WF_vars(HandlerStep(r))
          /\ SF_vars(ExternalSleepDone(r))
          /\ SF_vars(ExternalFetchDone(r))

\* the chaos manager after construction
InitChaos ==
    /\ chaos_config = ChaosConfig(EmptyBody)
    /\ cm_body = EmptyBody /\ cm_seen = NoValue /\ cm_trial = NoValue
    /\ rng = Entropy /\ ml_features = NoValue /\ ml_out = NoValue
    /\ ml_latency_ms = 0 /\ ml_first = NoValue
    /\ fb_args = NoValue /\ fb_hashseed = NoValue /\ fb_out = NoValue
    /\ reqs = [r \in Requests |-> IdleRequest]
    /\ running = NoRequest
    /\ pq_query = <<>> /\ pq_parsed = NoValue
    /\ ix_tokens = <<>> /\ ix_limit = 1 /\ ix_table = <<>>
    /\ ix_out = NoValue /\ ix_delay_ms = 0
    /\ rk_results = <<>> /\ rk_predictions = <<>> /\ rk_signal = None
    /\ rk_weights = DefaultWeights
    /\ rk_out = NoValue

NextChaos ==
    \/ UpdateChaosConfig
    \/ GetChaosConfig
    \/ TrialCall

\* the chaos manager under reconfigurations, reads and trials in any order
SpecChaos == InitChaos /\ [][NextChaos]_vars

NextPredict ==
    \/ PredictCall
    \/ UpdateChaosConfig

\* the model under predictions and reconfigurations in any order
SpecPredict == InitChaos /\ [][NextPredict]_vars

InitFeatures ==
    /\ fb_args \in [ parsed_query : { parse(q) : q \in FeatureQueries },
                     doc : FeatureDocs,
                     user_id : FeatureUsers ]
    /\ fb_hashseed \in [Processes -> HashSeeds]
    /\ fb_out = [p \in Processes |-> NoValue]
    /\ chaos_config = DefaultChaosConfig
    /\ cm_body = EmptyBody /\ cm_seen = NoValue /\ cm_trial = NoValue
    /\ rng = Entropy /\ ml_features = NoValue /\ ml_out = NoValue
    /\ ml_latency_ms = 0 /\ ml_first = NoValue
    /\ reqs = [r \in Requests |-> IdleRequest]
    /\ running = NoRequest
    /\ pq_query = <<>> /\ pq_parsed = NoValue
    /\ ix_tokens = <<>> /\ ix_limit = 1 /\ ix_table = <<>>
    /\ ix_out = NoValue /\ ix_delay_ms = 0
    /\ rk_results = <<>> /\ rk_predictions = <<>> /\ rk_signal = None
    /\ rk_weights = DefaultWeights
    /\ rk_out = NoValue

\* FeatureBuilder.build_features on one (query, candidate, user) triple in two
\* service processes
SpecFeatures == InitFeatures /\ [][BuildFeaturesCall]_vars

\* the parser is called with a raw query of the bounded input set
InitParse ==
    /\ pq_query \in QueriesOf(MaxPieces)
    /\ pq_parsed = NoValue
    /\ chaos_config = DefaultChaosConfig
    /\ cm_body = EmptyBody /\ cm_seen = NoValue /\ cm_trial = NoValue
    /\ rng = Entropy /\ ml_features = NoValue /\ ml_out = NoValue
    /\ ml_latency_ms = 0 /\ ml_first = NoValue
    /\ fb_args = NoValue /\ fb_hashseed = NoValue /\ fb_out = NoValue
    /\ reqs = [r \in Requests |-> IdleRequest]
    /\ running = NoRequest
    /\ ix_tokens = <<>> /\ ix_limit = 1 /\ ix_table = <<>>
    /\ ix_out = NoValue /\ ix_delay_ms = 0
    /\ rk_results = <<>> /\ rk_predictions = <<>> /\ rk_signal = None
    /\ rk_weights = DefaultWeights
    /\ rk_out = NoValue

\* QueryParser.parse on every query of the bounded input set
SpecParse == InitParse /\ [][ParseCall]_vars

\* the index is called with a token list, a limit and the rows that match, under
\* one of the chaos configurations
InitIndex ==
    /\ ix_tokens \in { parse(q).tokens : q \in IndexQueries }
    /\ ix_limit \in Limits
    /\ ix_table \in RankOrderings
    /\ ix_out = NoValue
    /\ ix_delay_ms = 0
    /\ cm_body \in ChaosBodies
    /\ chaos_config = ChaosConfig(cm_body)
    /\ cm_seen = NoValue /\ cm_trial = NoValue
    /\ rng = Entropy /\ ml_features = NoValue /\ ml_out = NoValue
    /\ ml_latency_ms = 0 /\ ml_first = NoValue
    /\ fb_args = NoValue /\ fb_hashseed = NoValue /\ fb_out = NoValue
    /\ reqs = [r \in Requests |-> IdleRequest]
    /\ running = NoRequest
    /\ pq_query = <<>> /\ pq_parsed = NoValue
    /\ rk_results = <<>> /\ rk_predictions = <<>> /\ rk_signal = None
    /\ rk_weights = DefaultWeights
    /\ rk_out = NoValue

\* SearchIndex.search on every table, token list and limit of the bounded input set
SpecIndex == InitIndex /\ [][IndexCall]_vars

\* the ranker is called with a candidate list the index can return, a
\* prediction map and an optional signal
InitRank ==
    /\ rk_results \in { IndexSearch(<<"q">>, NumDocs, table).returned : table \in RankOrderings }
    /\ rk_predictions \in PredictionMaps
    /\ rk_signal \in {None} \cup {Signal(s) : s \in SignalScores}
    /\ rk_weights = DefaultWeights
    /\ rk_out = NoValue
    /\ chaos_config = DefaultChaosConfig
    /\ cm_body = EmptyBody /\ cm_seen = NoValue /\ cm_trial = NoValue
    /\ rng = Entropy /\ ml_features = NoValue /\ ml_out = NoValue
    /\ ml_latency_ms = 0 /\ ml_first = NoValue
    /\ fb_args = NoValue /\ fb_hashseed = NoValue /\ fb_out = NoValue
    /\ reqs = [r \in Requests |-> IdleRequest]
    /\ running = NoRequest
    /\ pq_query = <<>> /\ pq_parsed = NoValue
    /\ ix_tokens = <<>> /\ ix_limit = 1 /\ ix_table = <<>>
    /\ ix_out = NoValue /\ ix_delay_ms = 0

\* Ranker.rank on every candidate list the index can return
SpecRank == InitRank /\ [][RankCall]_vars

\* the ranker of a service started with one of the weight settings
InitRankWeights ==
    /\ rk_results \in { IndexSearch(<<"q">>, NumDocs, table).returned : table \in RankOrderings }
    /\ rk_predictions \in PredictionMaps
    /\ rk_signal \in {None} \cup {Signal(s) : s \in SignalScores}
    /\ rk_weights \in WeightSettings
    /\ rk_out = NoValue
    /\ chaos_config = DefaultChaosConfig
    /\ cm_body = EmptyBody /\ cm_seen = NoValue /\ cm_trial = NoValue
    /\ rng = Entropy /\ ml_features = NoValue /\ ml_out = NoValue
    /\ ml_latency_ms = 0 /\ ml_first = NoValue
    /\ fb_args = NoValue /\ fb_hashseed = NoValue /\ fb_out = NoValue
    /\ reqs = [r \in Requests |-> IdleRequest]
    /\ running = NoRequest
    /\ pq_query = <<>> /\ pq_parsed = NoValue
    /\ ix_tokens = <<>> /\ ix_limit = 1 /\ ix_table = <<>>
    /\ ix_out = NoValue /\ ix_delay_ms = 0

\* Ranker.rank under the default and under reconfigured weights
SpecRankWeights == InitRankWeights /\ [][RankCall]_vars

\* ------------------------------------------------------- ranker properties
rk_ranked == rk_out.returned

\* the position of a document in the list handed to rank (the index order)
InputPosition(doc_id) ==
    CHOOSE j \in 1..Len(rk_results) : rk_results[j].doc_id = doc_id

ExpectedRecommendation(doc_id) ==
    IF doc_id \in DOMAIN rk_predictions THEN rk_predictions[doc_id].score ELSE 0

ExpectedExternal == IF rk_signal = None THEN 0 ELSE rk_signal.relevance_score

\* C1: every candidate handed to rank comes back with
\* finalScore = 0.5*baseScore + 0.3*rec + 0.2*ext, where rec is the score of the
\* prediction stored under its docId (0 when there is none) and ext is the
\* signal's relevanceScore (0 when there is no signal), the same for every
\* candidate; the explanation components are exactly baseScore, rec and ext.
C1_FinalScoreIsWeightedSum ==
    rk_out # NoValue =>
        /\ \A j \in 1..Len(rk_results) :
              \E i \in 1..Len(rk_ranked) : rk_ranked[i].doc_id = rk_results[j].doc_id
        /\ \A i \in 1..Len(rk_ranked) :
              \E j \in 1..Len(rk_results) :
                 LET doc == rk_results[j]
                     rec == ExpectedRecommendation(doc.doc_id)
                 IN  /\ rk_ranked[i].doc_id = doc.doc_id
                     /\ rk_ranked[i].score
                          = 5 * doc.base_score + 3 * rec + 2 * ExpectedExternal
                     /\ rk_ranked[i].explanations
                          = [ search |-> doc.base_score,
                              recommendation |-> rec,
                              external |-> ExpectedExternal ]

\* rank has returned two or more results, one scored with a stored prediction
\* and one without, under a signal with a non-zero relevance score
C1_Witness ==
    /\ rk_out # NoValue
    /\ Len(rk_ranked) >= 2
    /\ rk_signal # None /\ rk_signal.relevance_score > 0
    /\ \E i, j \in 1..Len(rk_ranked) :
          /\ rk_ranked[i].doc_id \in DOMAIN rk_predictions
          /\ rk_ranked[i].explanations.recommendation > 0
          /\ rk_ranked[j].doc_id \notin DOMAIN rk_predictions

\* C2: the list rank returns is ordered by finalScore non-increasing, and two
\* results with equal finalScore keep the relative order of their candidates
\* in the input list (the sort is stable).
C2_SortedDescendingAndStable ==
    rk_out # NoValue =>
        \A i, j \in 1..Len(rk_ranked) :
            i < j =>
                /\ rk_ranked[i].score >= rk_ranked[j].score
                /\ rk_ranked[i].score = rk_ranked[j].score
                     => InputPosition(rk_ranked[i].doc_id)
                          < InputPosition(rk_ranked[j].doc_id)

\* rank has returned a list that holds a tie between two documents of different
\* base score, and a strict descent as well
C2_Witness ==
    /\ rk_out # NoValue
    /\ \E i, j \in 1..Len(rk_ranked) :
          /\ i < j
          /\ rk_ranked[i].score = rk_ranked[j].score
          /\ rk_ranked[i].explanations.search # rk_ranked[j].explanations.search
    /\ \E i, j \in 1..Len(rk_ranked) : rk_ranked[i].score > rk_ranked[j].score

\* C3: rank never drops or duplicates a candidate: whatever the prediction map
\* (empty, partial, complete) and the signal, the output is as long as the
\* input and its docIds are a permutation of the input docIds.
C3_OutputIsPermutationOfInput ==
    rk_out # NoValue =>
        /\ Len(rk_ranked) = Len(rk_results)
        /\ \A j \in 1..Len(rk_results) :
              Cardinality({ i \in 1..Len(rk_ranked) :
                              rk_ranked[i].doc_id = rk_results[j].doc_id }) = 1

\* rank has returned every one of two or more candidates although the
\* prediction map is empty and there is no signal
C3_Witness ==
    /\ rk_out # NoValue
    /\ Len(rk_results) >= 2
    /\ Len(rk_ranked) = Len(rk_results)
    /\ DOMAIN rk_predictions = {}
    /\ rk_signal = None

\* ------------------------------------------------------- parser properties
\* the tokenization of the raw query, before any filtering
RawTokens == FindAllWords(Strip(Lower(pq_query)))

\* the raw tokens that are no stop-word and longer than one character
KeptTokens ==
    SelectSeq(RawTokens, LAMBDA t : ~(t \in stopwords_list \/ Len(t) <= 1))

HasAlphanumeric == \E i \in 1..Len(pq_query) : pq_query[i] \in Alphanumeric

\* C8: parse returns as tokens the filtered list (stop-words and tokens of
\* length <= 1 removed, order and duplicates kept) when it is non-empty and the
\* complete unfiltered list otherwise; so tokens is non-empty whenever the raw
\* query holds an alphanumeric character, and token_count is the length of tokens.
C8_TokensFilteredOrFallback ==
    pq_parsed # NoValue =>
        /\ pq_parsed.tokens = IF KeptTokens # <<>> THEN KeptTokens ELSE RawTokens
        /\ HasAlphanumeric => pq_parsed.tokens # <<>>
        /\ pq_parsed.token_count = Len(pq_parsed.tokens)

\* parse has returned for a query of stop-words and one-character tokens only:
\* the filter keeps nothing and the unfiltered tokens come back
C8_Witness ==
    /\ pq_parsed # NoValue
    /\ HasAlphanumeric
    /\ KeptTokens = <<>>
    /\ Len(pq_parsed.tokens) >= 2

\* C9 as stated: the intent is DISCOVERY iff the filtered token count (after
\* removing stop-words and tokens of length <= 1) is <= 2, also when the
\* fallback to the unfiltered tokens applies.
C9_IntentByFilteredCount ==
    pq_parsed # NoValue =>
        (pq_parsed.intent = DISCOVERY <=> Len(KeptTokens) <= 2)

\* C9 amended: the intent is DISCOVERY iff the number of tokens parse returns
\* is <= 2; that is the filtered token count when the filter keeps a token,
\* and the unfiltered token count when the fallback applies.
C9_IntentByReturnedCount ==
    pq_parsed # NoValue =>
        /\ pq_parsed.intent \in {DISCOVERY, SEARCH}
        /\ pq_parsed.intent = DISCOVERY <=> pq_parsed.token_count <= 2
        /\ KeptTokens # <<>> => (pq_parsed.intent = DISCOVERY <=> Len(KeptTokens) <= 2)
        /\ KeptTokens = <<>> => (pq_parsed.intent = DISCOVERY <=> Len(RawTokens) <= 2)

\* parse has returned SEARCH for a query of three or more stop-words, where
\* the filter keeps nothing
C9_Witness ==
    /\ pq_parsed # NoValue
    /\ KeptTokens = <<>>
    /\ Len(RawTokens) >= 3
    /\ pq_parsed.intent = SEARCH

\* -------------------------------------------------------- index properties
ix_returned == ix_out.returned

\* C10: search returns at most `limit` candidates, and they are exactly the
\* first `limit` rows of the index's rank ordering, in that order (fetching
\* 2*limit rows and truncating neither reorders nor filters).
C10_FirstLimitRowsInRankOrder ==
    (ix_out # NoValue /\ ix_out # IndexError) =>
        /\ Len(ix_returned) <= ix_limit
        /\ Len(ix_returned) = Min(ix_limit, Len(ix_table))
        /\ \A i \in 1..Len(ix_returned) :
              /\ ix_returned[i].doc_id = ix_table[i].doc_id
              /\ ix_returned[i].base_score = 100 \div (1 + Abs(ix_table[i].bm25_rank))

\* search has returned `limit` candidates from a table that holds more than
\* the 2*limit rows it fetches
C10_Witness ==
    /\ ix_out # NoValue /\ ix_out # IndexError
    /\ Len(ix_table) > 2 * ix_limit
    /\ Len(ix_returned) = ix_limit

\* ------------------------------------------------------ handler properties
Called(r, component) ==
    \E i \in 1..Len(reqs[r].components_called) : reqs[r].components_called[i] = component

\* the candidate of request r that a ranked result was built from
CandidateOf(r, result) ==
    CHOOSE doc \in { reqs[r].search_results[j] : j \in 1..Len(reqs[r].search_results) } :
        doc.doc_id = result.doc_id

SignalScoreOf(r) ==
    IF reqs[r].external_signal = None THEN 0 ELSE reqs[r].external_signal.relevance_score

Responded(r) == reqs[r].pc = "done"

\* C4: with the model-failure rate at 1.0, a request whose index lookup
\* succeeded is answered with a success response that holds every candidate,
\* each with recommendation component exactly 0, search component equal to its
\* baseScore and external component equal to the external signal's score.
C4_ModelFailureRateOneZeroesRecommendation ==
    \A r \in Requests :
        ( /\ Responded(r)
          /\ Called(r, "search_index")
          /\ reqs[r].chaos_config.model_failure_rate = 100 ) =>
            /\ reqs[r].status_code = 200
            /\ Len(reqs[r].ranked_results) = Len(reqs[r].search_results)
            /\ \A i \in 1..Len(reqs[r].ranked_results) :
                  LET result == reqs[r].ranked_results[i]
                  IN  /\ result.explanations.recommendation = 0
                      /\ result.explanations.search = CandidateOf(r, result).base_score
                      /\ result.explanations.search > 0
                      /\ result.explanations.external = SignalScoreOf(r)

\* a request that started under model-failure rate 1.0 is answered with two
\* results while the lookup gave a signal with a non-zero score
C4_Witness ==
    \E r \in Requests :
        /\ Responded(r)
        /\ reqs[r].status_code = 200
        /\ reqs[r].chaos_config.model_failure_rate = 100
        /\ Len(reqs[r].ranked_results) = 2
        /\ reqs[r].failed_predictions = 2
        /\ reqs[r].external_outcome = "success"
        /\ SignalScoreOf(r) > 0

ExternalFailures ==
    {"chaos_failure", "chaos_timeout", "transport_error", "timeout", "non_200",
     "malformed_body"}

\* C5: a failure of the External Signal stage (simulated failure, simulated
\* timeout, transport error, timeout, non-success status) never fails the
\* request: the response is a success in which every result's external
\* component is exactly 0; with the external-failure rate at 1.0 every request
\* that reaches the stage ends that way.
C5_ExternalFailureIsSoft ==
    \A r \in Requests :
        /\ ( Responded(r) /\ reqs[r].external_outcome \in ExternalFailures ) =>
              /\ reqs[r].status_code = 200
              /\ reqs[r].external_signal = None
              /\ Len(reqs[r].ranked_results) = Len(reqs[r].search_results)
              /\ \A i \in 1..Len(reqs[r].ranked_results) :
                    reqs[r].ranked_results[i].explanations.external = 0
        /\ ( /\ Responded(r)
             /\ Called(r, "search_index")
             /\ reqs[r].chaos_config.external_api_failure_rate = 100 ) =>
              /\ reqs[r].external_outcome = "chaos_failure"
              /\ reqs[r].status_code = 200

\* a request that started under external-failure rate 1.0 is answered with a
\* result that carries a prediction score
C5_Witness ==
    \E r \in Requests :
        /\ Responded(r)
        /\ reqs[r].status_code = 200
        /\ reqs[r].chaos_config.external_api_failure_rate = 100
        /\ reqs[r].external_outcome = "chaos_failure"
        /\ \E i \in 1..Len(reqs[r].ranked_results) :
              reqs[r].ranked_results[i].explanations.recommendation > 0

C7_BlankQueryRejectedBeforePipeline ==
    \A r \in Requests :
        ( reqs[r].pc # "idle" /\ Strip(reqs[r].q) = <<>> ) =>
            /\ Responded(r)
            /\ reqs[r].status_code = 422
            /\ reqs[r].components_called = <<>>

\* ------------------------------------------------- chaos manager properties
\* the body of the one-field reconfiguration and of the all-fields one that
\* sets the external-failure rate to 1.0
OneFieldBody ==
    [ model_failure_rate |-> 100, external_api_timeout_rate |-> Omitted,
      slow_search_rate |-> Omitted, external_api_failure_rate |-> Omitted ]

AllFieldsBody ==
    [ model_failure_rate |-> 0, external_api_timeout_rate |-> 0,
      slow_search_rate |-> 0, external_api_failure_rate |-> 100 ]

\* the rate a trial of one kind compares its draw with, under the
\* configuration built from the body of the last reconfiguration
LastPostedRate(kind) ==
    LET c == [ f \in RateFields |->
                 IF cm_body'[f] = Omitted THEN FieldDefault[f] ELSE cm_body'[f] ]
    IN  CASE kind = "model_failure" -> c.model_failure_rate
          [] kind = "external_timeout" -> c.external_api_timeout_rate
          [] kind = "slow_search" -> c.slow_search_rate
          [] kind = "external_failure" -> c.external_api_failure_rate

\* C11: update_config replaces the whole configuration, no merge: after every
\* step the four rates in force are exactly those of the last configuration
\* passed to update_config (a rate its request left out is the schema default,
\* never the previous value), get_config returns exactly that configuration
\* and every trial compares its draw with the rate of that configuration; so
\* after several updates the last one wins.
C11_UpdateReplacesWholeConfig ==
    [][ /\ \A f \in RateFields :
              chaos_config'[f] = IF cm_body'[f] = Omitted THEN FieldDefault[f]
                                 ELSE cm_body'[f]
        /\ cm_seen' # cm_seen => cm_seen' = chaos_config'
        /\ cm_trial' # cm_trial =>
              cm_trial'.fired = (cm_trial'.draw < LastPostedRate(cm_trial'.kind)) ]_vars

\* get_config returned the all-fields configuration, then a one-field
\* reconfiguration came and an external-failure trial on a draw between the
\* default rate and the previous rate did not fire
C11_Witness ==
    /\ cm_seen = ChaosConfig(AllFieldsBody)
    /\ cm_body = OneFieldBody
    /\ chaos_config.external_api_failure_rate = 5
    /\ chaos_config.model_failure_rate = 100
    /\ cm_trial # NoValue
    /\ cm_trial.kind = "external_failure" /\ cm_trial.draw = 7 /\ ~cm_trial.fired

\* the configurations that exist as a whole: the one built at construction and
\* those built from the bodies passed to update_config
WholeConfigs == { ChaosConfig(body) : body \in ChaosBodies \cup {EmptyBody} }

InFlight(r) == reqs[r].pc \notin {"idle", "done"}

\* C12: under any interleaving of reconfigurations with the requests in
\* flight, the four rates in force at any moment, and the four rates a request
\* read with get_config, all belong to one single configuration: the initial
\* one or one that was passed whole to update_config.
C12_NoHalfUpdatedConfig ==
    /\ chaos_config \in WholeConfigs
    /\ chaos_config = ChaosConfig(cm_body)
    /\ \A r \in Requests :
          InFlight(r) => reqs[r].chaos_config \in WholeConfigs

\* a request is suspended in its network call with the configuration it read
\* at its start, the configuration was replaced since in more than one rate,
\* and a second request in flight has read the new one
C12_Witness ==
    \E r1, r2 \in Requests :
        /\ reqs[r1].pc = "fetching"
        /\ InFlight(r2)
        /\ reqs[r1].chaos_config # chaos_config
        /\ reqs[r2].chaos_config = chaos_config
        /\ Cardinality({ f \in RateFields :
                           reqs[r1].chaos_config[f] # chaos_config[f] }) >= 2

\* ------------------------------------------------------- model properties
Succeeded(out) == out # NoValue /\ out # ModelError

\* C13: two predict calls that receive identical FeatureVector values and both
\* succeed return the identical score (the same noise term) and the identical
\* confidence, whatever predictions, chaos trials and reconfigurations ran
\* between them.
C13_ScorerDeterminism ==
    ( /\ ml_first # NoValue
      /\ Succeeded(ml_first.out)
      /\ Succeeded(ml_out)
      /\ ml_first.features = ml_features ) =>
        /\ ml_out.returned.score = ml_first.out.returned.score
        /\ ml_out.returned.confidence = ml_first.out.returned.confidence

\* the same feature vector was scored twice with success, the second time
\* after a reconfiguration and with another sleep, so other calls and draws
\* lie between the two
C13_Witness ==
    /\ ml_first # NoValue
    /\ Succeeded(ml_first.out)
    /\ Succeeded(ml_out)
    /\ ml_first.features = ml_features
    /\ ml_features.embedding_dot_product > 0
    /\ ml_latency_ms = (model_timeout_seconds * 8) \div 10
    /\ chaos_config = ChaosConfig(AllFieldsBody)

\* ---------------------------------------------------- response properties
Succeeded200(r) == Responded(r) /\ reqs[r].status_code = 200

Occurrences(list, x) == Cardinality({ i \in 1..Len(list) : list[i] = x })

\* C14: in every successful search response components_called holds
\* 'recommendation_engine' iff at least one candidate's prediction succeeded,
\* and 'wikipedia_api' iff an external signal was obtained; 'query_parser',
\* 'search_index' and 'ranker' are always listed, and no name twice.
C14_ComponentsCalledListsContributors ==
    \A r \in Requests :
        Succeeded200(r) =>
            LET called == reqs[r].components_called
            IN  /\ Occurrences(called, "recommendation_engine") > 0
                     <=> reqs[r].successful_predictions >= 1
                /\ reqs[r].successful_predictions >= 1
                     <=> DOMAIN reqs[r].model_predictions # {}
                /\ Occurrences(called, "wikipedia_api") > 0
                     <=> reqs[r].external_signal # None
                /\ Occurrences(called, "query_parser") = 1
                /\ Occurrences(called, "search_index") = 1
                /\ Occurrences(called, "ranker") = 1
                /\ \A i \in 1..Len(called) : Occurrences(called, called[i]) = 1

\* two responses of degraded requests: in one both predictions succeeded and
\* the external stage failed, in the other every prediction failed and the
\* external signal was obtained
C14_Witness ==
    \E r1, r2 \in Requests :
        /\ Succeeded200(r1) /\ Succeeded200(r2)
        /\ reqs[r1].successful_predictions = 2
        /\ reqs[r1].external_signal = None
        /\ Called(r1, "recommendation_engine") /\ ~Called(r1, "wikipedia_api")
        /\ reqs[r2].successful_predictions = 0 /\ reqs[r2].failed_predictions >= 1
        /\ reqs[r2].external_signal # None
        /\ ~Called(r2, "recommendation_engine") /\ Called(r2, "wikipedia_api")

\* ------------------------------------------------ final score properties
\* the unnormalized final score of a candidate under the ranker's weights
WeightedSum(doc) ==
    rk_weights.weight_search * doc.base_score
    + rk_weights.weight_recommendation * ExpectedRecommendation(doc.doc_id)
    + rk_weights.weight_external * ExpectedExternal

\* C15 as stated: whatever the weights, also when they take a candidate's
\* finalScore above 1.0 or below 0, rank returns the complete ranked list with
\* that unnormalized finalScore: it does not fail, clamp or drop a candidate.
C15_RankReturnsUnnormalizedScores ==
    rk_out # NoValue =>
        /\ rk_out # ValidationError
        /\ Len(rk_out.returned) = Len(rk_results)
        /\ \A j \in 1..Len(rk_results) :
              \E i \in 1..Len(rk_out.returned) :
                 /\ rk_out.returned[i].doc_id = rk_results[j].doc_id
                 /\ rk_out.returned[i].score = WeightedSum(rk_results[j])

\* C16: with the default weights 0.5/0.3/0.2 and baseScore, prediction score
\* and relevanceScore each in [0,1], rank returns, and every finalScore lies in
\* [0,1], so the bound of the response schema is never violated.
C16_DefaultWeightsKeepScoreInUnitRange ==
    ( /\ rk_out # NoValue
      /\ rk_weights = [ weight_search |-> 5, weight_recommendation |-> 3,
                        weight_external |-> 2 ]
      /\ \A j \in 1..Len(rk_results) :
            rk_results[j].base_score >= 0 /\ rk_results[j].base_score <= 100
      /\ \A id \in DOMAIN rk_predictions :
            rk_predictions[id].score >= 0 /\ rk_predictions[id].score <= 100
      /\ ExpectedExternal >= 0 /\ ExpectedExternal <= 100 ) =>
        /\ rk_out # ValidationError
        /\ Len(rk_out.returned) = Len(rk_results)
        /\ \A i \in 1..Len(rk_out.returned) :
              rk_out.returned[i].score >= 0 /\ rk_out.returned[i].score <= 1000

\* rank has returned, under the default weights, a result with the three
\* components at 1.0 and final score 1.0, next to one without a prediction
C16_Witness ==
    /\ rk_out # NoValue /\ rk_out # ValidationError
    /\ rk_weights = DefaultWeights
    /\ \E i, j \in 1..Len(rk_out.returned) :
          /\ rk_out.returned[i].score = 1000
          /\ rk_out.returned[i].explanations
                = [search |-> 100, recommendation |-> 100, external |-> 100]
          /\ rk_out.returned[j].explanations.recommendation = 0

\* --------------------------------------------------- scheduling properties
\* the request is delayed in one of its suspension points: the index's injected
\* delay, the scorer's inference delay, the external timeout delay, the
\* external network call
DelayedIn(r) ==
    CASE reqs[r].pc = "index_sleep" -> "index_delay"
      [] reqs[r].pc = "score_sleep" -> "inference_delay"
      [] reqs[r].pc = "sleeping" -> "external_timeout_delay"
      [] reqs[r].pc = "fetching" -> "external_call"
      [] OTHER -> "none"

\* C17 as stated: while a request is delayed in any of its suspension points
\* the service can make progress on other requests and on chaos-config
\* updates: unless another request is executing at that moment, a
\* reconfiguration can be served and a new request can start.
C17_DelayedRequestDoesNotBlockService ==
    \A r \in Requests :
        ( DelayedIn(r) # "none" /\ running \in {r, NoRequest} ) =>
            /\ ENABLED UpdateChaosConfig
            /\ \A other \in Requests \ {r} :
                  reqs[other].pc = "idle" => ENABLED Receive(other)

\* the docIds of the first n candidates of a request, in index order
FirstCandidates(r, n) == { reqs[r].search_results[j].doc_id : j \in 1..n }

StageOrder == <<"query_parser", "search_index", "recommendation_engine",
                "wikipedia_api", "ranker">>

StageRank(name) == CHOOSE k \in 1..Len(StageOrder) : StageOrder[k] = name

\* C18: within one request the stages run in the order Normalizer, Lexical
\* Index, Feature-Build+Score for each candidate in index order, External
\* Signal, Fusion: a stage starts only when the previous one has finished, the
\* External Signal call starts only after the last candidate was scored or has
\* failed, and Fusion runs only after the External Signal stage has returned
\* or failed.
C18_StagesRunInFixedOrder ==
    \A r \in Requests :
        LET q == reqs[r]
            called == q.components_called
        IN  /\ \A i, j \in 1..Len(called) :
                  i < j => StageRank(called[i]) < StageRank(called[j])
            /\ q.pc \in {"index", "index_sleep"} =>
                  /\ q.parsed_query # None /\ called = <<"query_parser">>
                  /\ q.scored = 0 /\ q.external_outcome = "not_called"
            /\ q.pc \in {"score", "score_sleep"} =>
                  /\ Occurrences(called, "search_index") = 1
                  /\ q.scored < Len(q.search_results)
                  /\ q.successful_predictions + q.failed_predictions = q.scored
                  /\ DOMAIN q.model_predictions \subseteq FirstCandidates(r, q.scored)
                  /\ q.external_outcome = "not_called"
                  /\ Occurrences(called, "wikipedia_api") = 0
            /\ q.pc \in {"external", "sleeping", "fetching"} =>
                  /\ Occurrences(called, "search_index") = 1
                  /\ q.scored = Len(q.search_results)
                  /\ q.external_outcome = "not_called"
                  /\ Occurrences(called, "ranker") = 0 /\ q.ranked_results = <<>>
            /\ q.pc = "rank" =>
                  /\ q.scored = Len(q.search_results)
                  /\ q.external_outcome # "not_called"
                  /\ Occurrences(called, "ranker") = 0 /\ q.ranked_results = <<>>
            /\ Occurrences(called, "ranker") = 1 =>
                  /\ q.pc = "done"
                  /\ q.scored = Len(q.search_results)
                  /\ q.external_outcome # "not_called"

\* a request with two candidates is suspended in its network call: both
\* candidates were handled before, the first scored and the second failed,
\* and nothing is ranked yet
C18_Witness ==
    \E r \in Requests :
        /\ reqs[r].pc = "fetching"
        /\ Len(reqs[r].search_results) = 2
        /\ reqs[r].scored = 2
        /\ DOMAIN reqs[r].model_predictions = { reqs[r].search_results[1].doc_id }
        /\ reqs[r].failed_predictions = 1
        /\ reqs[r].ranked_results = <<>>

FailureTrial(fired) == [kind |-> "external_failure", fired |-> fired]
TimeoutTrial(fired) == [kind |-> "external_timeout", fired |-> fired]

C21_NoiseLeavesGeneratorUnchanged ==
    [][ Succeeded(ml_out') => rng' = Advance(Advance(Advance(rng))) ]_vars

\* C22: every returned prediction has its score in [0, 1] and
\* confidence = |score - 0.5| * 2, which lies in [0, 1], is 0 at score 0.5 and
\* is 1 at score 0 or 1.
C22_ScoreAndConfidenceInUnitRange ==
    Succeeded(ml_out) =>
        LET score == ml_out.returned.score
            confidence == ml_out.returned.confidence
        IN  /\ score \in 0..100
            /\ confidence = (IF score >= 50 THEN score - 50 ELSE 50 - score) * 2
            /\ confidence \in 0..100
            /\ score = 50 => confidence = 0
            /\ score \in {0, 100} => confidence = 100

\* a prediction whose sigmoid output plus noise exceeded 1 was returned, with
\* the score cut to 1 and confidence 1
C22_Witness ==
    /\ Succeeded(ml_out)
    /\ Sigmoid(WeightedScore(ml_features) \div 100)
         + Uniform(-5, 5, Generate(Abs(FeatureHash(ml_features)), 0)) > 100
    /\ ml_out.returned.score = 100
    /\ ml_out.returned.confidence = 100

\* C29: no chaos trial and no latency draw is taken from the generator while
\* it is seeded with a feature hash: between two steps the generator is never
\* left seeded, and the last trial was drawn from an unseeded generator.
C29_NoTrialFromSeededGenerator ==
    /\ ~rng.seeded
    /\ cm_trial # NoValue => ~cm_trial.seeded

\* a model-failure trial was drawn right after a call of predict that seeded
\* the generator with the feature hash, drew the noise and returned
C29_Witness ==
    /\ ml_first # NoValue
    /\ Succeeded(ml_first.out)
    /\ ml_out = ModelError
    /\ cm_trial # NoValue
    /\ cm_trial.kind = "model_failure" /\ cm_trial.fired /\ ~cm_trial.seeded
    /\ rng = EntropySeeded(2)

\* -------------------------------------------- feature builder properties
\* the feature vectors returned so far
Built == { p \in Processes : fb_out[p] # NoValue }

QueryTokenSet == SetOf(fb_args.parsed_query.tokens)
SnippetTokenSet == SetOf(Split(Lower(fb_args.doc.text)))
InCatalog == fb_args.doc.doc_id \in DOMAIN documents

\* C23: the Jaccard overlap is |A n B| / |A u B| over the query-token set A
\* and the document-token set B, 0 when the union is empty; it lies in [0,1],
\* is symmetric in A and B, and is 1 when A = B is non-empty.
C23_JaccardOverlap ==
    \A p \in Built :
        LET A == QueryTokenSet
            B == SnippetTokenSet
            overlap == fb_out[p].query_doc_overlap
        IN  /\ A \cup B = {} => overlap = 0
            /\ A \cup B # {} =>
                  overlap = (Cardinality(A \cap B) * 100) \div Cardinality(A \cup B)
            /\ overlap \in 0..100
            /\ JaccardOverlap(A, B) = JaccardOverlap(B, A)
            /\ A = B /\ A # {} => overlap = 100

\* an overlap strictly between 0 and 1 was computed: one shared token out of two
C23_Witness ==
    /\ Built # {}
    /\ QueryTokenSet = { <<"m","l">> }
    /\ SnippetTokenSet = { <<"t","h","e">>, <<"m","l">> }
    /\ \A p \in Built : fb_out[p].query_doc_overlap = 50

\* C24: the document tokens of the overlap and the document length are taken
\* from the full text of the catalog record, also when the text is longer than
\* the 200-character snippet.
C24_FeaturesUseFullDocumentText ==
    \A p \in Built :
        InCatalog =>
            LET text == documents[fb_args.doc.doc_id].text
                A == QueryTokenSet
                B == SetOf(Split(Lower(text)))
            IN  /\ fb_out[p].doc_length = Len(text)
                /\ fb_out[p].query_doc_overlap =
                      (IF A \cup B = {} THEN 0
                       ELSE (Cardinality(A \cap B) * 100) \div Cardinality(A \cup B))

\* C25: with no record of the candidate in the catalog build_features returns
\* a feature vector with category encoding 0 and embeddingDotProduct 0; every
\* docCategoryEncoded is in 0..4, and a category outside the five is encoded 0.
C25_MissingRecordUsesDefaults ==
    \A p \in Built :
        /\ ~InCatalog =>
              /\ fb_out[p].doc_category_encoded = 0
              /\ fb_out[p].embedding_dot_product = 0
        /\ fb_out[p].doc_category_encoded \in 0..4
        /\ ( InCatalog /\ documents[fb_args.doc.doc_id].category
                  \notin { "machine_learning", "data_science", "web_development",
                           "cloud_computing", "cybersecurity" } ) =>
              fb_out[p].doc_category_encoded = 0

\* features were built for a candidate without a record, for a query with a
\* token (so the query embedding is not zero)
C25_Witness ==
    /\ Built # {}
    /\ ~InCatalog
    /\ fb_args.parsed_query.tokens = << <<"m","l">> >>
    /\ generate_query_embedding(0, fb_args.parsed_query.tokens) # ZeroEmbedding
    /\ \A p \in Built : fb_out[p].embedding_dot_product = 0

\* C26: the same (query, candidate, user) triple yields the same FeatureVector,
\* with userIdHash in 0..999, and so the same score, in every run of the
\* service, two separately started processes included.
C26_FeaturesStableAcrossProcesses ==
    /\ \A p \in Built : fb_out[p].user_id_hash \in 0..999
    /\ \A p1, p2 \in Built :
          /\ fb_out[p1] = fb_out[p2]
          /\ ClampedScore(fb_out[p1],
                    Uniform(-5, 5, Generate(Abs(FeatureHash(fb_out[p1])), 0)))
                = ClampedScore(fb_out[p2],
                    Uniform(-5, 5, Generate(Abs(FeatureHash(fb_out[p2])), 0)))

\* ------------------------------------------------ chaos trial properties
\* the request has passed its first suspension point
Suspended(r) == reqs[r].pc \in {"sleeping", "fetching", "rank", "done"}

\* C27: all chaos trials of one search request are evaluated before its first
\* suspension point, and every trial of a request is drawn against the same
\* ChaosConfig, whatever reconfigurations other requests issue.
C27_TrialsOfARequestSeeOneConfig ==
    /\ [](\A r \in Requests :
             \A i, j \in 1..Len(reqs[r].trial_configs) :
                 reqs[r].trial_configs[i] = reqs[r].trial_configs[j])
    /\ [][ \A r \in Requests :
             ( Suspended(r) /\ reqs'[r].pc # "idle" ) =>
                 reqs'[r].trial_configs = reqs[r].trial_configs ]_vars

\* a request drew its slow-search trial, two model-failure trials and both
\* external trials, was suspended in its lookup, and the configuration was
\* replaced by a concurrent call before it went on
C27_Witness ==
    \E r \in Requests :
        /\ reqs[r].pc = "rank"
        /\ reqs[r].scored = 2
        /\ Len(reqs[r].external_trials) = 2
        /\ Len(reqs[r].trial_configs) = 5
        /\ reqs[r].lookups # <<>>
        /\ chaos_config # reqs[r].trial_configs[1]

\* ------------------------------------------------- prediction bookkeeping
\* the request has reached the ranker
ReachedRanker(r) == reqs[r].pc = "rank" \/ Succeeded200(r)

\* C28: in every request that reaches the ranker successful_predictions +
\* failed_predictions is the number of candidates, the prediction map holds
\* exactly the docIds of the candidates whose prediction succeeded, and one
\* model-prediction metric was recorded per candidate.
C28_OnePredictionOutcomePerCandidate ==
    \A r \in Requests :
        ReachedRanker(r) =>
            LET candidates == reqs[r].search_results
                metrics == reqs[r].model_metrics
            IN  /\ reqs[r].successful_predictions + reqs[r].failed_predictions
                      = Len(candidates)
                /\ Len(metrics) = Len(candidates)
                /\ DOMAIN reqs[r].model_predictions =
                      { candidates[i].doc_id :
                          i \in { k \in 1..Len(candidates) : metrics[k] = "success" } }
                /\ Occurrences(metrics, "success") = reqs[r].successful_predictions
                /\ Occurrences(metrics, "failure") = reqs[r].failed_predictions
                /\ Cardinality(DOMAIN reqs[r].model_predictions)
                      = reqs[r].successful_predictions

\* a request reached the ranker with one failed and one successful prediction
C28_Witness ==
    \E r \in Requests :
        /\ Succeeded200(r)
        /\ Len(reqs[r].search_results) = 2
        /\ reqs[r].model_metrics = <<"failure", "success">>
        /\ DOMAIN reqs[r].model_predictions = { reqs[r].search_results[2].doc_id }

\* --------------------------------------------------------- termination
\* the handler of the request has started and has not returned
Started(r) == reqs[r].pc \notin {"idle", "done"}

\* the index has answered and the handler has not returned
IndexAnswered(r) ==
    reqs[r].pc \in {"score", "score_sleep", "external", "sleeping", "fetching", "rank"}

\* C30: every search request terminates; once the index has answered, the
\* request reaches the ranker and returns a response, whatever the chaos
\* trials gave: no delay and no lookup leaves it waiting forever.
C30_EveryRequestTerminates ==
    \A r \in LiveRequests :
        /\ Started(r) ~> Responded(r)
        /\ IndexAnswered(r) ~> Succeeded200(r)

\* a request whose model-failure trial fired for every candidate and whose
\* external-timeout trial fired has returned its response
C30_Witness ==
    \E r \in LiveRequests :
        /\ Succeeded200(r)
        /\ reqs[r].external_outcome = "chaos_timeout"
        /\ reqs[r].failed_predictions = 2
        /\ reqs[r].successful_predictions = 0

====
